---------------------------- MODULE Spec2Model ----------------------------
(***************************************************************************)
(* warmwalrus cleanmarkers: marker extraction, strategy resolution and the *)
(* per-file pipeline (dry run and real run) over a small file system.      *)
(*                                                                         *)
(* Text is a sequence of tokens.  A token is one character ("\n", " ",     *)
(* "a", "b", "/") or one fixed string of the program that is only ever     *)
(* compared as a whole: a marker text, the key "CLAUDE_THREAD_TITLE:",     *)
(* the placeholder "{title}", the label "Claude discussion:", a chat url,  *)
(* the extension ".md".                                                    *)
(***************************************************************************)
EXTENDS Naturals, Sequences, FiniteSets, TLC

VARIABLES
    pc,                 \* position of the command: see the actions
    args_strategies,    \* args.strategies (--strategies, in the user's order)
    no_claude_url,      \* args.no_claude_url
    no_overwrite,       \* args.no_overwrite
    dry_run,            \* args.dry_run
    age_filter,         \* None, or "set" when --age was given
    strategies,         \* the resolved strategy list
    allow_overwrite,    \* FileRenamerStrategy.allow_overwrite
    fs,                 \* the file system: path -> content of each existing file
    files_to_process,   \* the candidate list find_files returned
    idx,                \* position of the processing loop in files_to_process
    processed_count,    \* processed_count of handle_cleanmarkers
    log,                \* the calls the last needs_processing / process_file made
    content,            \* input of the marker-extraction check
    result,             \* output of the marker-extraction check
    result_again,       \* output of marker extraction applied to result
    fs0,                \* the file system when the command started
    returned,           \* what the last rename_file returned
    run,                \* 1 in the first run of the command, 2 in the second
    paths,              \* args.paths: the roots given on the command line
    excludes            \* the exclude substrings of the FileFinder

vars == <<pc, args_strategies, no_claude_url, no_overwrite, dry_run, age_filter,
          strategies, allow_overwrite, fs, files_to_process, idx,
          processed_count, log, content, result, result_again, fs0, returned,
          run, paths, excludes>>

\* What only the checks of single operations and of discovery change.
aux_vars == <<result_again, fs0, returned, run, paths, excludes>>

None == "None"

(***************************************************************************)
(* Bounds of the model.                                                    *)
(***************************************************************************)
MaxLen == 5         \* tokens in a content of the marker-extraction check
MaxNames == 3       \* names given with --strategies in the resolution check
MaxFiles == 2       \* files that exist when the run starts
MaxCands == 2       \* candidates in files_to_process
MaxTitleLen == 5    \* tokens in a content of the rename_file check
MaxRoots == 2       \* roots given on the command line in the discovery check

(***************************************************************************)
(* str.strip, str.splitlines, "".join on token sequences.                  *)
(***************************************************************************)
Whitespace == {" ", "\n"}

RECURSIVE lstrip(_)
lstrip(s) ==
    IF s # <<>> /\ Head(s) \in Whitespace THEN lstrip(Tail(s)) ELSE s

RECURSIVE rstrip(_)
rstrip(s) ==
    IF s # <<>> /\ s[Len(s)] \in Whitespace
    THEN rstrip(SubSeq(s, 1, Len(s) - 1))
    ELSE s

strip(s) == rstrip(lstrip(s))

RECURSIVE splitlines_from(_, _, _, _)
splitlines_from(s, i, cur, keepends) ==
    IF i > Len(s)
    THEN IF cur = <<>> THEN <<>> ELSE <<cur>>
    ELSE IF s[i] = "\n"
         THEN <<IF keepends THEN Append(cur, "\n") ELSE cur>>
              \o splitlines_from(s, i + 1, <<>>, keepends)
         ELSE splitlines_from(s, i + 1, Append(cur, s[i]), keepends)

splitlines(s, keepends) == splitlines_from(s, 1, <<>>, keepends)

RECURSIVE join(_)
join(lines) == IF lines = <<>> THEN <<>> ELSE Head(lines) \o join(Tail(lines))

(***************************************************************************)
(* FileProcessor: markers.                                                 *)
(***************************************************************************)
START_MARKERS == {<<".......... START ..........">>, <<"<response>">>}
END_MARKERS == {<<".......... END ..........">>, <<"</response>">>}

\* _has_markers: some line is a start or an end marker after strip().
_has_markers(c) ==
    LET lines == splitlines(c, FALSE)
    IN  \E i \in 1..Len(lines) :
            strip(lines[i]) \in START_MARKERS \/ strip(lines[i]) \in END_MARKERS

\* Faulty variant of process_line: a start marker line switches keep mode on and is kept.
process_line_keeps_marker(st, line) ==
    LET stripped_line == strip(line)
    IN  IF stripped_line \in START_MARKERS
        THEN [keep_mode |-> TRUE, found_start |-> TRUE,
              result_lines |-> IF st.found_start
                               THEN Append(st.result_lines, line)
                               ELSE st.result_lines]
        ELSE IF stripped_line \in END_MARKERS
        THEN [st EXCEPT !.keep_mode = FALSE]
        ELSE IF st.keep_mode
        THEN [st EXCEPT !.result_lines = Append(@, line)]
        ELSE st

\* Faulty variant of process_line: an end marker line is kept when in keep mode.
process_line_keeps_end_marker(st, line) ==
    LET stripped_line == strip(line)
    IN  IF stripped_line \in START_MARKERS
        THEN [st EXCEPT !.keep_mode = TRUE, !.found_start = TRUE]
        ELSE IF stripped_line \in END_MARKERS
        THEN [st EXCEPT !.keep_mode = FALSE,
                        !.result_lines = IF st.keep_mode THEN Append(@, line)
                                         ELSE @]
        ELSE IF st.keep_mode
        THEN [st EXCEPT !.result_lines = Append(@, line)]
        ELSE st

\* One iteration of the loop of _process_content.
process_line(st, line) ==
    LET stripped_line == strip(line)
    IN  IF stripped_line \in START_MARKERS
        THEN [st EXCEPT !.keep_mode = TRUE, !.found_start = TRUE]
        ELSE IF stripped_line \in END_MARKERS
        THEN [st EXCEPT !.keep_mode = FALSE]
        ELSE IF st.keep_mode
        THEN [st EXCEPT !.result_lines = Append(@, line)]
        ELSE st

RECURSIVE process_lines(_, _, _)
process_lines(lines, i, st) ==
    IF i > Len(lines) THEN st
    ELSE process_lines(lines, i + 1, process_line(st, lines[i]))

\* Faulty variant of _process_content: the "no START marker" return is missing.
_process_content_unguarded(c) ==
    join(process_lines(splitlines(c, TRUE), 1,
                       [keep_mode |-> FALSE, found_start |-> FALSE,
                        result_lines |-> <<>>]).result_lines)

_process_content(c) ==
    LET st == process_lines(splitlines(c, TRUE), 1,
                            [keep_mode |-> FALSE, found_start |-> FALSE,
                             result_lines |-> <<>>])
    IN  IF ~st.found_start THEN c ELSE join(st.result_lines)

(***************************************************************************)
(* StrategyRegistry and the resolution of the active strategies.  A        *)
(* strategy instance is named by its class; the registry holds one         *)
(* instance per key.                                                       *)
(***************************************************************************)
NewlinePaddingStrategy == "NewlinePaddingStrategy"
ClaudeUrlStrategy == "ClaudeUrlStrategy"
FileRenamerStrategy == "FileRenamerStrategy"

\* StrategyRegistry._strategies after _register_default_strategies.
_strategies ==
    ("newline_padding" :> NewlinePaddingStrategy)
    @@ ("claude_url" :> ClaudeUrlStrategy)
    @@ ("file_renamer" :> FileRenamerStrategy)

list_strategies == DOMAIN _strategies

get_strategy(name) ==
    IF name \in DOMAIN _strategies THEN _strategies[name] ELSE None

get_default_strategies ==
    <<get_strategy("file_renamer"), get_strategy("claude_url")>>

RECURSIVE get_strategies_by_names(_)
get_strategies_by_names(names) ==
    IF names = <<>> THEN <<>>
    ELSE LET strategy == get_strategy(Head(names))
         IN  (IF strategy # None THEN <<strategy>> ELSE <<>>)
             \o get_strategies_by_names(Tail(names))

Range(s) == {s[i] : i \in 1..Len(s)}

\* Faulty variant of adds_default_claude_url: the "not named by the user" test is missing.
adds_default_claude_url_unless_disabled(names, ncu) == ~ncu

\* cli.py: "if not args.no_claude_url and 'claude_url' not in args.strategies".
adds_default_claude_url(names, ncu) ==
    ~ncu /\ "claude_url" \notin Range(names)

\* Faulty variant of insert_default: the default strategy is appended, not prepended.
append_default(resolved, strategy) == Append(resolved, strategy)

\* cli.py: strategies.insert(0, claude_url_strategy).
insert_default(resolved, strategy) == <<strategy>> \o resolved

\* handle_cleanmarkers, "Setup strategies".
resolve_strategies(names, ncu) ==
    IF names = <<>>
    THEN IF ~ncu
         THEN get_default_strategies
         ELSE <<get_strategy("file_renamer")>>
    ELSE LET resolved == get_strategies_by_names(names)
             claude_url_strategy == get_strategy("claude_url")
         IN  IF adds_default_claude_url(names, ncu)
                /\ claude_url_strategy # None
             THEN insert_default(resolved, claude_url_strategy)
             ELSE resolved

\* Faulty variant of configured_allow_overwrite: --no-overwrite is not passed on.
configured_allow_overwrite_default(resolved, no_ow) == TRUE

\* "Handle overwrite logic" and "Configure file_renamer strategy": only
\* FileRenamerStrategy has set_allow_overwrite; its default is True.
configured_allow_overwrite(resolved, no_ow) ==
    IF FileRenamerStrategy \in Range(resolved) THEN TRUE /\ ~no_ow ELSE TRUE

is_renaming_strategy(strategy) == strategy = FileRenamerStrategy

(***************************************************************************)
(* The file system.  A path is a directory and a file name; a file name    *)
(* is a token sequence ending in its extension.  A content holding the     *)
(* token Undecodable is not valid UTF-8: read_text raises on it.           *)
(***************************************************************************)
Undecodable == "<0xFF>"
NoPath == [dir |-> "", name |-> <<>>]        \* Python's None, for a path

exists(f, path) == path \in DOMAIN f

can_read(f, path) ==
    exists(f, path) /\ \A i \in 1..Len(f[path]) : f[path][i] # Undecodable

unlink(f, path) == [p \in DOMAIN f \ {path} |-> f[p]]

\* Faulty variant of rename: the file is copied and stays under its old path too.
rename_keeps_source(f, path, new_path) ==
    [p \in DOMAIN f \cup {new_path} |-> IF p = new_path THEN f[path] ELSE f[p]]

\* Path.rename: the file moves to new_path, replacing what is there.
rename(f, path, new_path) ==
    [p \in (DOMAIN f \ {path}) \cup {new_path} |->
        IF p = new_path THEN f[path] ELSE f[p]]

write_text(f, path, c) ==
    [p \in DOMAIN f \cup {path} |-> IF p = path THEN c ELSE f[p]]

(***************************************************************************)
(* FileRenamerStrategy.  Both title patterns are matched on tokens:        *)
(* CLAUDE_THREAD_TITLE: is one token, \s* runs over " " and "\n", and "."  *)
(* is any token but "\n".                                                  *)
(***************************************************************************)
TITLE_KEY == "CLAUDE_THREAD_TITLE:"
TITLE_PLACEHOLDER == <<"{title}">>
max_length == 200

RECURSIVE skip_whitespace(_, _)
skip_whitespace(s, j) ==
    IF j <= Len(s) /\ s[j] \in Whitespace THEN skip_whitespace(s, j + 1) ELSE j

\* The first index from j on that holds "\n", or Len(s) + 1.
RECURSIVE line_end(_, _)
line_end(s, j) ==
    IF j <= Len(s) /\ s[j] # "\n" THEN line_end(s, j + 1) ELSE j

\* Where group 1 of "CLAUDE_THREAD_TITLE:\s*(.+?)" starts for the key at k, or
\* 0 when the pattern does not match there.  \s* is greedy; when it runs to
\* the end of the text it gives back tokens until "." can match one (a space).
title_start(s, k) ==
    LET j0 == skip_whitespace(s, k + 1)
        spaces == {j \in (k + 1)..Len(s) : s[j] = " "}
    IN  IF j0 <= Len(s) THEN j0
        ELSE IF spaces = {} THEN 0
        ELSE CHOOSE j \in spaces : \A o \in spaces : o <= j

\* thread_title_pattern.finditer: group 1 of every match, from index `from`.
RECURSIVE title_matches(_, _)
title_matches(s, from) ==
    LET keys == {k \in from..Len(s) : s[k] = TITLE_KEY /\ title_start(s, k) # 0}
    IN  IF keys = {} THEN <<>>
        ELSE LET k == CHOOSE x \in keys : \A o \in keys : x <= o
                 j == title_start(s, k)
                 e == line_end(s, j + 1)
             IN  <<SubSeq(s, j, e - 1)>> \o title_matches(s, e + 1)

\* "Look for the first non-placeholder title"; <<>> when there is none (an
\* empty title is as good as none: "if not actual_title").
RECURSIVE first_actual_title(_)
first_actual_title(matches) ==
    IF matches = <<>> THEN <<>>
    ELSE IF strip(Head(matches)) # TITLE_PLACEHOLDER THEN strip(Head(matches))
    ELSE first_actual_title(Tail(matches))

\* pathvalidate.sanitize_filename(title, replacement_text=" ") on tokens:
\* every character a file name cannot hold becomes a space.  "/" is such a
\* character, and so is the ":" the key ends with.
sanitize_filename(title) ==
    join([i \in 1..Len(title) |->
            IF title[i] = "/" THEN <<" ">>
            ELSE IF title[i] = TITLE_KEY THEN <<"CLAUDE_THREAD_TITLE", " ">>
            ELSE <<title[i]>>])

_sanitize_filename(title) ==
    IF title = <<>> \/ strip(title) = <<>> THEN <<>>
    ELSE LET sanitized == sanitize_filename(title)
             cut == IF Len(sanitized) > max_length
                    THEN rstrip(SubSeq(sanitized, 1, max_length))
                    ELSE sanitized
         IN  strip(cut)

\* new_path = file_path.parent / f"{clean_title}.md"
new_path_for(file_path, clean_title) ==
    [dir |-> file_path.dir, name |-> clean_title \o <<".md">>]

\* rename_file.  io says which of the OS calls fail with OSError this time.
\* Returns the file system it leaves and the path it returns (NoPath: None).
rename_file(f, file_path, allow_ow, io) ==
    IF ~can_read(f, file_path) THEN [fs |-> f, ret |-> NoPath]
    ELSE
    LET full_content == f[file_path]
        matches == title_matches(full_content, 1)
        actual_title == first_actual_title(matches)
        clean_title == _sanitize_filename(actual_title)
        new_path == new_path_for(file_path, clean_title)
    IN  IF matches = <<>> THEN [fs |-> f, ret |-> NoPath]
        ELSE IF actual_title = <<>> THEN [fs |-> f, ret |-> NoPath]
        ELSE IF clean_title = <<>> THEN [fs |-> f, ret |-> NoPath]
        ELSE IF new_path = file_path THEN [fs |-> f, ret |-> file_path]
        ELSE IF exists(f, new_path) /\ ~allow_ow THEN [fs |-> f, ret |-> NoPath]
        ELSE IF exists(f, new_path) /\ io.unlink_fails
        THEN [fs |-> f, ret |-> NoPath]
        ELSE LET f1 == IF exists(f, new_path) THEN unlink(f, new_path) ELSE f
             IN  IF io.rename_fails THEN [fs |-> f1, ret |-> NoPath]
                 ELSE [fs |-> rename(f1, file_path, new_path), ret |-> new_path]

\* thread_title_line_pattern.sub("", content): "^CLAUDE_THREAD_TITLE:\s*.+?$"
\* with MULTILINE, from index i.
RECURSIVE remove_title_lines(_, _)
remove_title_lines(s, i) ==
    IF i > Len(s) THEN <<>>
    ELSE IF s[i] = TITLE_KEY /\ (i = 1 \/ s[i - 1] = "\n") /\ title_start(s, i) # 0
         THEN remove_title_lines(s, line_end(s, title_start(s, i) + 1))
         ELSE <<s[i]>> \o remove_title_lines(s, i + 1)

\* The first index from j on that does not hold "\n".
RECURSIVE newline_run_end(_, _)
newline_run_end(s, j) ==
    IF j <= Len(s) /\ s[j] = "\n" THEN newline_run_end(s, j + 1) ELSE j

\* re.sub(r"\n{3,}", "\n\n", content), from index i.
RECURSIVE collapse_newlines(_, _)
collapse_newlines(s, i) ==
    IF i > Len(s) THEN <<>>
    ELSE IF s[i] # "\n" THEN <<s[i]>> \o collapse_newlines(s, i + 1)
    ELSE LET e == newline_run_end(s, i)
         IN  (IF e - i >= 3 THEN <<"\n", "\n">> ELSE SubSeq(s, i, e - 1))
             \o collapse_newlines(s, e)

\* FileRenamerStrategy.process
file_renamer_process(c) ==
    IF c = <<>> THEN c ELSE collapse_newlines(remove_title_lines(c, 1), 1)

(***************************************************************************)
(* ClaudeUrlStrategy and NewlinePaddingStrategy.                           *)
(***************************************************************************)
URL_LABEL == "Claude discussion:"
ChatUrls == {"https://claude.ai/chat/ab12"}
newline_count == 20

\* claude_url_pattern.search(full_content): <<url>> of the first match, or <<>>.
claude_url_search(s) ==
    LET hits == {k \in 1..Len(s) :
                    /\ s[k] = URL_LABEL
                    /\ skip_whitespace(s, k + 1) <= Len(s)
                    /\ s[skip_whitespace(s, k + 1)] \in ChatUrls}
    IN  IF hits = {} THEN <<>>
        ELSE LET k == CHOOSE x \in hits : \A o \in hits : x <= o
             IN  <<s[skip_whitespace(s, k + 1)]>>

newlines(n) == [i \in 1..n |-> "\n"]

\* ClaudeUrlStrategy.process: reads the file at file_path again.
claude_url_process(c, file_path, f) ==
    IF ~can_read(f, file_path) THEN c
    ELSE LET match == claude_url_search(f[file_path])
         IN  IF match = <<>> THEN c
             ELSE IF strip(c) # <<>>
                  THEN newlines(5) \o match \o newlines(5) \o c
                  ELSE match

\* NewlinePaddingStrategy.process
newline_padding_process(c) ==
    IF c = <<>> THEN newlines(newline_count)
    ELSE LET leading_newlines == newline_run_end(c, 1) - 1
         IN  IF leading_newlines >= newline_count THEN c
             ELSE newlines(newline_count - leading_newlines) \o c

\* strategy.process(content, file_path)
strategy_process(strategy, c, file_path, f) ==
    CASE strategy = ClaudeUrlStrategy -> claude_url_process(c, file_path, f)
      [] strategy = NewlinePaddingStrategy -> newline_padding_process(c)
      [] strategy = FileRenamerStrategy -> file_renamer_process(c)

(***************************************************************************)
(* FileProcessor.process_file and FileProcessor.needs_processing.  Each    *)
(* returns the file system it leaves, its result, whether it raised, and   *)
(* the calls it made, in order.                                            *)
(***************************************************************************)
Ev(op, strategy, path, ret, c, failed) ==
    [op |-> op, strategy |-> strategy, path |-> path, ret |-> ret,
     content |-> c, failed |-> failed]

IOs == [unlink_fails : BOOLEAN, rename_fails : BOOLEAN, write_fails : BOOLEAN]

\* Every OS call succeeds.
NoFailure ==
    [unlink_fails |-> FALSE, rename_fails |-> FALSE, write_fails |-> FALSE]

\* strategy.rename_file(path): the base class returns None.
strategy_rename_file(strategy, f, path, allow_ow, io) ==
    IF strategy = FileRenamerStrategy
    THEN rename_file(f, path, allow_ow, io)
    ELSE [fs |-> f, ret |-> NoPath]

\* "First, apply renaming strategies": the loop from strategy i on.
RECURSIVE apply_renames(_, _, _, _, _)
apply_renames(strats, i, st, allow_ow, io) ==
    IF i > Len(strats) THEN st
    ELSE IF is_renaming_strategy(strats[i])
    THEN LET r == strategy_rename_file(strats[i], st.fs, st.current_path,
                                       allow_ow, io)
             moved == r.ret # NoPath /\ r.ret # st.current_path
         IN  apply_renames(strats, i + 1,
                 [fs |-> r.fs,
                  current_path |-> IF moved THEN r.ret ELSE st.current_path,
                  changes_made |-> st.changes_made \/ moved,
                  log |-> Append(st.log,
                                 Ev("rename_file", strats[i], st.current_path,
                                    r.ret, <<>>, FALSE))],
                 allow_ow, io)
    ELSE apply_renames(strats, i + 1, st, allow_ow, io)

\* "Then apply content strategies": the loop from strategy i on.
RECURSIVE apply_content(_, _, _, _, _)
apply_content(strats, i, st, path, f) ==
    IF i > Len(strats) THEN st
    ELSE IF ~is_renaming_strategy(strats[i])
    THEN LET out == strategy_process(strats[i], st.content, path, f)
         IN  apply_content(strats, i + 1,
                 [content |-> out,
                  log |-> Append(st.log,
                                 Ev("process", strats[i], path, NoPath, out,
                                    FALSE))],
                 path, f)
    ELSE apply_content(strats, i + 1, st, path, f)

\* Faulty variant of path_after_renames: the path the file was found under.
path_before_renames(file_path, current_path) == file_path

\* The path process_file hands to the content strategies and to write_text.
path_after_renames(file_path, current_path) == current_path

\* Faulty variant of should_write: the file is rewritten every time.
should_write_always(processed_content, original_content) == TRUE

\* "if processed_content != original_content"
should_write(processed_content, original_content) ==
    processed_content # original_content

\* process_file, "if processed_content != original_content": con is what
\* the content strategies left.
process_file_write(original_content, path, ren, con, io) ==
    IF should_write(con.content, original_content)
    THEN IF io.write_fails
         THEN [fs |-> ren.fs, result |-> FALSE, raised |-> TRUE,
               log |-> Append(con.log,
                              Ev("write", None, path, NoPath, con.content,
                                 TRUE))]
         ELSE [fs |-> write_text(ren.fs, path, con.content),
               result |-> TRUE, raised |-> FALSE,
               log |-> Append(con.log,
                              Ev("write", None, path, NoPath, con.content,
                                 FALSE))]
    ELSE [fs |-> ren.fs, result |-> ren.changes_made, raised |-> FALSE,
          log |-> con.log]

\* process_file, "Then, process markers" and "Then apply content
\* strategies": ren is what the renaming strategies left.
process_file_content(original_content, path, extracted, ren, strats, io) ==
    process_file_write(original_content, path, ren,
        apply_content(strats, 1,
            [content |-> extracted,
             log |-> Append(ren.log,
                            Ev("extract", None, NoPath, NoPath, extracted,
                               FALSE))],
            path, ren.fs),
        io)

process_file_renamed(original_content, file_path, ren, strats, io) ==
    process_file_content(original_content,
        path_after_renames(file_path, ren.current_path),
        _process_content(original_content), ren, strats, io)

process_file(f, file_path, strats, allow_ow, io) ==
    IF ~can_read(f, file_path)
    THEN [fs |-> f, result |-> FALSE, raised |-> TRUE,
          log |-> <<Ev("read", None, file_path, NoPath, <<>>, TRUE)>>]
    ELSE process_file_renamed(f[file_path], file_path,
             apply_renames(strats, 1,
                 [fs |-> f, current_path |-> file_path,
                  changes_made |-> FALSE,
                  log |-> <<Ev("read", None, file_path, NoPath, f[file_path],
                               FALSE)>>],
                 allow_ow, io),
             strats, io)

\* _meets_age_criteria: within says whether the file's age is within the
\* limit when it is looked at; stat() of a missing file raises OSError.
_meets_age_criteria(f, file_path, age, within) ==
    IF age = None THEN TRUE
    ELSE IF ~exists(f, file_path) THEN FALSE
    ELSE within

\* "Check if any strategy would modify the content or rename the file": the
\* loop from strategy i on.
RECURSIVE probe_strategies(_, _, _, _, _, _, _)
probe_strategies(strats, i, st, file_path, c, allow_ow, io) ==
    IF i > Len(strats)
    THEN [fs |-> st.fs, result |-> FALSE, raised |-> FALSE, log |-> st.log]
    ELSE IF is_renaming_strategy(strats[i])
    THEN LET r == strategy_rename_file(strats[i], st.fs, file_path, allow_ow, io)
             lg == Append(st.log,
                          Ev("rename_file", strats[i], file_path, r.ret, <<>>,
                             FALSE))
         IN  IF r.ret # NoPath /\ r.ret # file_path
             THEN [fs |-> r.fs, result |-> TRUE, raised |-> FALSE, log |-> lg]
             ELSE probe_strategies(strats, i + 1, [fs |-> r.fs, log |-> lg],
                                   file_path, c, allow_ow, io)
    ELSE LET out == strategy_process(strats[i], c, file_path, st.fs)
             lg == Append(st.log,
                          Ev("process", strats[i], file_path, NoPath, out, FALSE))
         IN  IF out # c
             THEN [fs |-> st.fs, result |-> TRUE, raised |-> FALSE, log |-> lg]
             ELSE probe_strategies(strats, i + 1, [fs |-> st.fs, log |-> lg],
                                   file_path, c, allow_ow, io)

\* Faulty variant of needs_processing_except: the error is raised again.
needs_processing_reraise(f, file_path) ==
    [fs |-> f, result |-> FALSE, raised |-> TRUE,
     log |-> <<Ev("read", None, file_path, NoPath, <<>>, TRUE)>>]

\* "except Exception as e: logging.error(...); return False"
needs_processing_except(f, file_path) ==
    [fs |-> f, result |-> FALSE, raised |-> FALSE,
     log |-> <<Ev("read", None, file_path, NoPath, <<>>, TRUE)>>]

needs_processing(f, file_path, strats, allow_ow, age, within, io) ==
    IF ~_meets_age_criteria(f, file_path, age, within)
    THEN [fs |-> f, result |-> FALSE, raised |-> FALSE, log |-> <<>>]
    ELSE IF ~can_read(f, file_path) THEN needs_processing_except(f, file_path)
    ELSE
    LET c == f[file_path]
        rd == <<Ev("read", None, file_path, NoPath, c, FALSE)>>
    IN  IF _has_markers(c)
        THEN [fs |-> f, result |-> TRUE, raised |-> FALSE, log |-> rd]
        ELSE probe_strategies(strats, 1, [fs |-> f, log |-> rd], file_path, c,
                              allow_ow, io)

\* The path current_path holds after the first k calls of lg.
RECURSIVE CurrentPathAfter(_, _)
CurrentPathAfter(lg, k) ==
    IF k <= 1 THEN lg[1].path
    ELSE LET prev == CurrentPathAfter(lg, k - 1)
         IN  IF lg[k].op = "rename_file" /\ lg[k].ret # NoPath /\ lg[k].ret # prev
             THEN lg[k].ret
             ELSE prev

(***************************************************************************)
(* FileFinder.  A directory is its absolute path: "/" and the tokens of    *)
(* its segments.  A root or a directory entry is a path record; the record *)
(* of a directory has the empty name.  The directories of FindDirs exist.  *)
(***************************************************************************)
extension == ".md"          \* f".{self.extension}" with the default --ext md

FindDirs ==
    {<<"/", "w">>,
     <<"/", "w", "/", ".git">>,
     <<"/", "w", "/", "n">>,
     <<"/", "w", "/", "n", "/", ".git", "x">>}

is_file(f, path) == path \in DOMAIN f

is_dir(path) == path.name = <<>> /\ path.dir \in FindDirs

\* The directory a directory is an entry of.
RECURSIVE parent(_)
parent(directory) ==
    IF directory = <<>> THEN <<>>
    ELSE IF directory[Len(directory)] = "/"
    THEN SubSeq(directory, 1, Len(directory) - 1)
    ELSE parent(SubSeq(directory, 1, Len(directory) - 1))

RECURSIVE SetToSeq(_)
SetToSeq(S) ==
    IF S = {} THEN <<>>
    ELSE LET x == CHOOSE y \in S : TRUE IN <<x>> \o SetToSeq(S \ {x})

Reverse(seq) == [i \in 1..Len(seq) |-> seq[Len(seq) + 1 - i]]

\* directory.iterdir(): the entries in one of the orders the OS may give.
iterdir(f, directory, reversed) ==
    LET entries ==
            SetToSeq({q \in DOMAIN f : q.dir = directory})
            \o SetToSeq({[dir |-> d, name |-> <<>>] :
                            d \in {x \in FindDirs : parent(x) = directory}})
    IN  IF reversed THEN Reverse(entries) ELSE entries

\* "exclude in abs_path_str"
IsSubstring(sub, str) ==
    \E i \in 0..Len(str) :
        i + Len(sub) <= Len(str) /\ SubSeq(str, i + 1, i + Len(sub)) = sub

_should_exclude_directory(directory, excl) ==
    \E i \in 1..Len(excl) : IsSubstring(excl[i], directory)

\* fresh: the files whose age is within the limit when stat() looks.
_should_process_file(file_path, age, fresh) ==
    IF file_path.name = <<>> \/ file_path.name[Len(file_path.name)] # extension
    THEN FALSE
    ELSE age = None \/ file_path \in fresh

RECURSIVE _find_files_in_directory(_, _, _, _, _, _)
RECURSIVE scan_entries(_, _, _, _, _, _, _)

\* The loop "for item in directory.iterdir()", from entry i on.
scan_entries(f, entries, i, excl, age, fresh, reversed) ==
    IF i > Len(entries) THEN <<>>
    ELSE LET item == entries[i]
         IN  (IF is_file(f, item)
              THEN IF _should_process_file(item, age, fresh)
                   THEN <<item>> ELSE <<>>
              ELSE IF is_dir(item) /\ ~_should_exclude_directory(item.dir, excl)
              THEN _find_files_in_directory(f, item.dir, excl, age, fresh,
                                            reversed)
              ELSE <<>>)
             \o scan_entries(f, entries, i + 1, excl, age, fresh, reversed)

_find_files_in_directory(f, directory, excl, age, fresh, reversed) ==
    scan_entries(f, iterdir(f, directory, reversed), 1, excl, age, fresh,
                 reversed)

\* find_files: the loop "for path_str in paths", from root i on.
RECURSIVE find_files(_, _, _, _, _, _, _)
find_files(f, roots, i, excl, age, fresh, reversed) ==
    IF i > Len(roots) THEN <<>>
    ELSE LET path == roots[i]
         IN  (IF is_file(f, path)
              THEN IF _should_process_file(path, age, fresh)
                   THEN <<path>> ELSE <<>>
              ELSE IF is_dir(path)
              THEN _find_files_in_directory(f, path.dir, excl, age, fresh,
                                            reversed)
              ELSE <<>>)
             \o find_files(f, roots, i + 1, excl, age, fresh, reversed)

\* "Set default excludes if none provided"
effective_excludes(args_exclude) ==
    IF args_exclude = <<>> THEN <<<<".git">>>> ELSE args_exclude

(***************************************************************************)
(* handle_cleanmarkers: the command as a state machine.                    *)
(*   pc = "setup"      before "Setup strategies"                           *)
(*   pc = "loop"       in the processing loop, at files_to_process[idx]    *)
(*   pc = "done"       the command returned                                *)
(*   pc = "sys_exit_1" the command ended with sys.exit(1)                  *)
(***************************************************************************)
SetupStrategies ==
    /\ pc = "setup"
    /\ strategies' = resolve_strategies(args_strategies, no_claude_url)
    /\ allow_overwrite' = configured_allow_overwrite(strategies', no_overwrite)
    /\ pc' = "loop"
    /\ UNCHANGED <<args_strategies, no_claude_url, no_overwrite, dry_run,
                   age_filter, fs, files_to_process, idx, processed_count,
                   log, content, result>>
    /\ UNCHANGED aux_vars

\* Faulty variant of after_file: the error is logged and the loop goes on.
after_file_continue(raised) == "loop"

\* "except Exception as e: logging.error(...); sys.exit(1)"
after_file(raised) == IF raised THEN "sys_exit_1" ELSE "loop"

\* The body of "for file_path in files_to_process", r being what
\* needs_processing or process_file did.
LoopBody(r) ==
    /\ fs' = r.fs
    /\ log' = r.log
    /\ pc' = after_file(r.raised)
    /\ idx' = IF r.raised THEN idx ELSE idx + 1
    /\ processed_count' =
           IF r.result THEN processed_count + 1 ELSE processed_count

\* One iteration of the loop with args.dry_run, the outcome of the OS calls
\* being one of ios.  needs_processing looks at the file's age only with
\* --age.
DryRunStepIn(ios) ==
    /\ pc = "loop"
    /\ dry_run
    /\ idx <= Len(files_to_process)
    /\ \E io \in ios,
          within \in (IF age_filter = None THEN {TRUE} ELSE BOOLEAN) :
         LoopBody(needs_processing(fs, files_to_process[idx], strategies,
                                   allow_overwrite, age_filter, within, io))
    /\ UNCHANGED <<args_strategies, no_claude_url, no_overwrite, dry_run,
                   age_filter, strategies, allow_overwrite, files_to_process,
                   content, result>>
    /\ UNCHANGED aux_vars

\* needs_processing never calls write_text.
DryRunStep == DryRunStepIn({x \in IOs : ~x.write_fails})

\* One iteration of the loop without args.dry_run, the outcome of the OS
\* calls being one of ios.
ProcessStepIn(ios) ==
    /\ pc = "loop"
    /\ ~dry_run
    /\ idx <= Len(files_to_process)
    /\ \E io \in ios :
         LoopBody(process_file(fs, files_to_process[idx], strategies,
                               allow_overwrite, io))
    /\ UNCHANGED <<args_strategies, no_claude_url, no_overwrite, dry_run,
                   age_filter, strategies, allow_overwrite, files_to_process,
                   content, result>>
    /\ UNCHANGED aux_vars

ProcessStep == ProcessStepIn(IOs)

\* The loop is over ("No files found to process" when the list is empty).
LoopEnd ==
    /\ pc = "loop"
    /\ idx > Len(files_to_process)
    /\ pc' = "done"
    /\ UNCHANGED <<args_strategies, no_claude_url, no_overwrite, dry_run,
                   age_filter, strategies, allow_overwrite, fs,
                   files_to_process, idx, processed_count, log, content,
                   result>>
    /\ UNCHANGED aux_vars

SeqsUpTo(S, n) == UNION {[1..k -> S] : k \in 0..n}

\* The files a run starts from, and what they hold.
InitPaths ==
    {[dir |-> "d1", name |-> <<"a", ".md">>],
     [dir |-> "d1", name |-> <<"b", ".md">>],
     [dir |-> "d2", name |-> <<"a", ".md">>]}

FileContents ==
    {<<"a", "\n">>,
     <<".......... START ..........", "\n", "a", "\n",
       ".......... END ..........", "\n", "b", "\n">>,
     <<TITLE_KEY, " ", "b", "\n", "a", "\n">>,
     <<TITLE_KEY, " ", "a", "\n", URL_LABEL, " ",
       "https://claude.ai/chat/ab12", "\n">>,
     <<Undecodable>>}

InitFileSystems ==
    UNION {[P -> FileContents] :
              P \in {Q \in SUBSET InitPaths : Cardinality(Q) <= MaxFiles}}

\* --strategies as given on the command line in the runs of Spec.
RunStrategies == {<<>>, <<"newline_padding", "file_renamer">>}

\* A run of the command.  process_file never reads age_filter, so --age is
\* drawn for dry runs only.
Init ==
    /\ pc = "setup"
    /\ args_strategies \in RunStrategies
    /\ no_claude_url \in BOOLEAN
    /\ no_overwrite \in BOOLEAN
    /\ dry_run \in BOOLEAN
    /\ age_filter \in (IF dry_run THEN {None, "set"} ELSE {None})
    /\ strategies = <<>>
    /\ allow_overwrite = TRUE
    /\ fs \in InitFileSystems
    /\ files_to_process \in SeqsUpTo(DOMAIN fs, MaxCands)
    /\ idx = 1
    /\ processed_count = 0
    /\ log = <<>>
    /\ content = <<>>
    /\ result = <<>>
    /\ result_again = <<>>
    /\ fs0 = fs
    /\ returned = NoPath
    /\ run = 1
    /\ paths = <<>>
    /\ excludes = <<>>

Next == SetupStrategies \/ DryRunStep \/ ProcessStep \/ LoopEnd

Spec == Init /\ [][Next]_vars

(***************************************************************************)
(* Strategy resolution on its own: every --strategies list up to MaxNames  *)
(* names, unknown names included.                                          *)
(***************************************************************************)
NameInputs == list_strategies \cup {"bogus"}

InitResolve ==
    /\ pc = "setup"
    /\ args_strategies \in SeqsUpTo(NameInputs, MaxNames)
    /\ no_claude_url \in BOOLEAN
    /\ no_overwrite \in BOOLEAN
    /\ dry_run = FALSE
    /\ age_filter = None
    /\ strategies = <<>>
    /\ allow_overwrite = TRUE
    /\ fs = <<>>
    /\ files_to_process = <<>>
    /\ idx = 1
    /\ processed_count = 0
    /\ log = <<>>
    /\ content = <<>>
    /\ result = <<>>
    /\ result_again = <<>>
    /\ fs0 = fs
    /\ returned = NoPath
    /\ run = 1
    /\ paths = <<>>
    /\ excludes = <<>>

NextResolve == SetupStrategies

SpecResolve == InitResolve /\ [][NextResolve]_vars

(***************************************************************************)
(* The command on one file, every OS call succeeding: a dry run, or a real *)
(* run followed by a second run on the path the first left the file under. *)
(***************************************************************************)
\* The command, as given the first time, is given the file again.
RunAgain ==
    /\ pc = "done"
    /\ ~dry_run
    /\ run = 1
    /\ log # <<>>
    /\ run' = 2
    /\ files_to_process' = <<CurrentPathAfter(log, Len(log))>>
    /\ idx' = 1
    /\ processed_count' = 0
    /\ pc' = "loop"
    /\ UNCHANGED <<args_strategies, no_claude_url, no_overwrite, dry_run,
                   age_filter, strategies, allow_overwrite, fs, log, content,
                   result, result_again, fs0, returned, paths, excludes>>

RerunContents ==
    {<<"a", "\n">>,
     <<"a", "\n", ".......... END ..........", "\n">>,
     <<"<response>", "\n", "a", "\n", "</response>", "\n">>,
     <<TITLE_KEY, " ", "b", "\n", "a", "\n">>,
     <<"a", "\n", URL_LABEL, " ", "https://claude.ai/chat/ab12", "\n">>}

RerunFileSystems ==
    LET a == [dir |-> "d1", name |-> <<"a", ".md">>]
        b == [dir |-> "d1", name |-> <<"b", ".md">>]
    IN  {(a :> c) : c \in RerunContents}
        \cup {(a :> c) @@ (b :> <<"a", "\n">>) : c \in RerunContents}

RerunStrategies ==
    {<<>>, <<"newline_padding">>, <<"file_renamer", "newline_padding">>}

InitRerun ==
    /\ pc = "setup"
    /\ args_strategies \in RerunStrategies
    /\ no_claude_url \in BOOLEAN
    /\ no_overwrite \in BOOLEAN
    /\ dry_run \in BOOLEAN
    /\ age_filter = None
    /\ strategies = <<>>
    /\ allow_overwrite = TRUE
    /\ fs \in RerunFileSystems
    /\ files_to_process = <<[dir |-> "d1", name |-> <<"a", ".md">>]>>
    /\ idx = 1
    /\ processed_count = 0
    /\ log = <<>>
    /\ content = <<>>
    /\ result = <<>>
    /\ result_again = <<>>
    /\ fs0 = fs
    /\ returned = NoPath
    /\ run = 1
    /\ paths = <<>>
    /\ excludes = <<>>

NextRerun ==
    \/ SetupStrategies
    \/ DryRunStepIn({NoFailure})
    \/ ProcessStepIn({NoFailure})
    \/ LoopEnd
    \/ RunAgain

SpecRerun == InitRerun /\ [][NextRerun]_vars

(***************************************************************************)
(* Discovery followed by a real run in which every OS call succeeds.       *)
(* find_files reads nothing "Setup strategies" writes, so the run is the   *)
(* same with discovery taken first:                                        *)
(*   pc = "find"   before find_files                                       *)
(***************************************************************************)
FindFiles ==
    /\ pc = "find"
    /\ \E reversed \in BOOLEAN,
          fresh \in (IF age_filter = None THEN {{}} ELSE SUBSET DOMAIN fs) :
         files_to_process' =
             find_files(fs, paths, 1, effective_excludes(excludes),
                        age_filter, fresh, reversed)
    /\ pc' = "setup"
    /\ UNCHANGED <<args_strategies, no_claude_url, no_overwrite, dry_run,
                   age_filter, strategies, allow_overwrite, fs, idx,
                   processed_count, log, content, result>>
    /\ UNCHANGED aux_vars

\* The tree discovery walks: *.md and one *.txt under the directories of
\* FindDirs.
FindPaths ==
    {[dir |-> <<"/", "w">>, name |-> <<"a", ".md">>],
     [dir |-> <<"/", "w", "/", ".git">>, name |-> <<"a", ".md">>],
     [dir |-> <<"/", "w", "/", "n">>, name |-> <<"a", ".md">>],
     [dir |-> <<"/", "w", "/", "n">>, name |-> <<"b", ".txt">>],
     [dir |-> <<"/", "w", "/", "n", "/", ".git", "x">>, name |-> <<"a", ".md">>]}

FindContents == {<<"a", "\n">>, <<TITLE_KEY, " ", "b", "\n">>}

\* The roots a user may give: each directory, some files, a missing path.
FindRoots ==
    {[dir |-> d, name |-> <<>>] : d \in FindDirs}
    \cup {[dir |-> <<"/", "w", "/", "n">>, name |-> <<"a", ".md">>],
          [dir |-> <<"/", "w", "/", "n">>, name |-> <<"b", ".txt">>],
          [dir |-> <<"/", "w", "/", ".git">>, name |-> <<"a", ".md">>],
          [dir |-> <<"/", "w">>, name |-> <<"b", ".md">>]}

\* --exclude as given on the command line.
FindExcludes == {<<>>, <<<<"n">>>>, <<<<".git">>, <<"n">>>>}

InitFind ==
    /\ pc = "find"
    /\ args_strategies = <<>>
    /\ no_claude_url = FALSE
    /\ no_overwrite = FALSE
    /\ dry_run = FALSE
    /\ age_filter \in {None, "set"}
    /\ strategies = <<>>
    /\ allow_overwrite = TRUE
    /\ fs \in {[q \in FindPaths |-> c] : c \in FindContents}
    /\ files_to_process = <<>>
    /\ idx = 1
    /\ processed_count = 0
    /\ log = <<>>
    /\ content = <<>>
    /\ result = <<>>
    /\ result_again = <<>>
    /\ fs0 = fs
    /\ returned = NoPath
    /\ run = 1
    /\ paths \in SeqsUpTo(FindRoots, MaxRoots) \ {<<>>}
    /\ excludes \in FindExcludes

NextFind ==
    FindFiles \/ SetupStrategies \/ ProcessStepIn({NoFailure}) \/ LoopEnd

SpecFind == InitFind /\ [][NextFind]_vars

(***************************************************************************)
(* FileRenamerStrategy.rename_file on its own, as the command configures   *)
(* it: every content up to MaxTitleLen tokens in d1/a.md or d1/b.md, with  *)
(* or without a file at d1/a.md in the way.                                *)
(***************************************************************************)
TitleTokens == {TITLE_KEY, "{title}", " ", "\n", "a"}

RenameContents ==
    SeqsUpTo(TitleTokens, MaxTitleLen)
    \cup {<<TITLE_KEY, " ", "a", "/", "\n">>, <<Undecodable>>}

RenameFileSystems ==
    LET a == [dir |-> "d1", name |-> <<"a", ".md">>]
        b == [dir |-> "d1", name |-> <<"b", ".md">>]
    IN  {(q :> c) : q \in {a, b}, c \in RenameContents}
        \cup {(b :> c) @@ (a :> <<"b", "\n">>) : c \in RenameContents}

\* strategy.rename_file(file_path) of the configured file_renamer.
RenameFile ==
    /\ pc = "loop"
    /\ idx <= Len(files_to_process)
    /\ \E i \in 1..Len(strategies) : is_renaming_strategy(strategies[i])
    /\ \E io \in {x \in IOs : ~x.write_fails} :
         LET r == rename_file(fs, files_to_process[idx], allow_overwrite, io)
         IN  /\ fs' = r.fs
             /\ returned' = r.ret
    /\ pc' = "renamed"
    /\ UNCHANGED <<args_strategies, no_claude_url, no_overwrite, dry_run,
                   age_filter, strategies, allow_overwrite, files_to_process,
                   idx, processed_count, log, content, result, result_again,
                   fs0, run, paths, excludes>>

InitRename ==
    /\ pc = "setup"
    /\ args_strategies = <<>>
    /\ no_claude_url = FALSE
    /\ no_overwrite \in BOOLEAN
    /\ dry_run = FALSE
    /\ age_filter = None
    /\ strategies = <<>>
    /\ allow_overwrite = TRUE
    /\ fs \in RenameFileSystems
    /\ files_to_process \in {<<q>> : q \in DOMAIN fs}
    /\ idx = 1
    /\ processed_count = 0
    /\ log = <<>>
    /\ content = <<>>
    /\ result = <<>>
    /\ result_again = <<>>
    /\ fs0 = fs
    /\ returned = NoPath
    /\ run = 1
    /\ paths = <<>>
    /\ excludes = <<>>

NextRename == SetupStrategies \/ RenameFile

SpecRename == InitRename /\ [][NextRename]_vars

(***************************************************************************)
(* Marker extraction on its own: every content up to MaxLen tokens.        *)
(***************************************************************************)
ExtractTokens ==
    {".......... START ..........", "<response>", ".......... END ..........",
     "</response>", "a", " ", "\n"}

ExtractMarkers ==
    /\ pc = "extract"
    /\ result' = _process_content(content)
    /\ pc' = "extracted"
    /\ UNCHANGED <<args_strategies, no_claude_url, no_overwrite, dry_run,
                   age_filter, strategies, allow_overwrite, fs,
                   files_to_process, idx, processed_count, log, content>>
    /\ UNCHANGED aux_vars

InitExtract ==
    /\ pc = "extract"
    /\ content \in SeqsUpTo(ExtractTokens, MaxLen)
    /\ result = <<>>
    /\ args_strategies = <<>>
    /\ no_claude_url = FALSE
    /\ no_overwrite = FALSE
    /\ dry_run = FALSE
    /\ age_filter = None
    /\ strategies = <<>>
    /\ allow_overwrite = TRUE
    /\ fs = <<>>
    /\ files_to_process = <<>>
    /\ idx = 1
    /\ processed_count = 0
    /\ log = <<>>
    /\ result_again = <<>>
    /\ fs0 = fs
    /\ returned = NoPath
    /\ run = 1
    /\ paths = <<>>
    /\ excludes = <<>>

\* Marker extraction applied to what marker extraction returned.
ExtractAgain ==
    /\ pc = "extracted"
    /\ result_again' = _process_content(result)
    /\ pc' = "extracted_again"
    /\ UNCHANGED <<args_strategies, no_claude_url, no_overwrite, dry_run,
                   age_filter, strategies, allow_overwrite, fs,
                   files_to_process, idx, processed_count, log, content,
                   result, fs0, returned, run, paths, excludes>>

NextExtract == ExtractMarkers \/ ExtractAgain

SpecExtract == InitExtract /\ [][NextExtract]_vars

(***************************************************************************)
(* Properties of marker extraction (SpecExtract).                          *)
(***************************************************************************)
IsStartLine(line) == strip(line) \in START_MARKERS
IsEndLine(line) == strip(line) \in END_MARKERS

HasStartLine(c) ==
    \E i \in 1..Len(splitlines(c, TRUE)) : IsStartLine(splitlines(c, TRUE)[i])
HasEndLine(c) ==
    \E i \in 1..Len(splitlines(c, TRUE)) : IsEndLine(splitlines(c, TRUE)[i])

\* The lines of c after its first start marker line.
AfterFirstStart(c) ==
    LET lines == splitlines(c, TRUE)
        first == CHOOSE i \in 1..Len(lines) :
                    /\ IsStartLine(lines[i])
                    /\ \A j \in 1..(i - 1) : ~IsStartLine(lines[j])
    IN  SubSeq(lines, first + 1, Len(lines))

NotStartLine(line) == ~IsStartLine(line)

\* C9: for every content with no start marker line (end marker lines or
\* not), marker extraction returns the content unchanged.
C9_NoStartIsIdentity ==
    (pc = "extracted" /\ ~HasStartLine(content)) => result = content

C9_Witness ==
    /\ pc = "extracted"
    /\ ~HasStartLine(content)
    /\ HasEndLine(content)
    /\ \E i \in 1..Len(content) : content[i] = "a"
    /\ result = content

\* C10 as stated: with a start marker and no end marker, the result is
\* everything from the line after the (first) start marker to the end.
C10_KeepsAllAfterStart ==
    (pc = "extracted" /\ HasStartLine(content) /\ ~HasEndLine(content))
        => result = join(AfterFirstStart(content))

\* C10, amended: with a start marker and no end marker, the result is every
\* line after the first start marker up to the end, terminators included,
\* except the lines that are start markers themselves.
C10_KeepsLinesAfterStart ==
    (pc = "extracted" /\ HasStartLine(content) /\ ~HasEndLine(content))
        => result = join(SelectSeq(AfterFirstStart(content), NotStartLine))

C10_Witness ==
    /\ pc = "extracted"
    /\ HasStartLine(content)
    /\ ~HasEndLine(content)
    /\ Len(AfterFirstStart(content)) >= 2
    /\ result # <<>>
    /\ result[Len(result)] # "\n"

\* C11 as stated: extraction of the extracted content returns it unchanged,
\* and the extracted content contains no marker line.
C11_IdempotentNoMarkerLeft ==
    pc = "extracted_again" => result_again = result /\ ~_has_markers(result)

\* C11, amended: extraction of the extracted content returns it unchanged;
\* the extracted content has no start marker line, and no marker line at
\* all when the content had a start marker (without one, the content comes
\* back as it is, end marker lines included).
C11_Idempotent ==
    pc = "extracted_again" =>
        /\ result_again = result
        /\ ~HasStartLine(result)
        /\ HasStartLine(content) => ~_has_markers(result)
        /\ ~HasStartLine(content) => result = content

\* The first pass cut the text between the markers out of a longer content.
C11_Witness ==
    /\ pc = "extracted_again"
    /\ HasStartLine(content)
    /\ HasEndLine(content)
    /\ result # <<>>
    /\ result # content
    /\ result_again = result

(***************************************************************************)
(* Properties of strategy resolution (SpecResolve).                        *)
(***************************************************************************)
KnownName(name) == name \in list_strategies

\* The instances of the known names of names, in the order given.
KnownInOrder(names) ==
    LET known == SelectSeq(names, KnownName)
    IN  [i \in 1..Len(known) |-> _strategies[known[i]]]

Count(seq, x) == Cardinality({i \in 1..Len(seq) : seq[i] = x})

NoRepeat(seq) == \A i, j \in 1..Len(seq) : seq[i] = seq[j] => i = j

\* C5: without explicit names the list is [file_renamer, claude_url], or
\* [file_renamer] when claude_url is disabled; with explicit names it is the
\* known names in the user's order, with claude_url put in front exactly
\* when it is not disabled and the user did not name it.
C5_ResolutionPolicy ==
    pc = "loop" =>
        strategies =
            IF args_strategies = <<>>
            THEN IF no_claude_url
                 THEN <<FileRenamerStrategy>>
                 ELSE <<FileRenamerStrategy, ClaudeUrlStrategy>>
            ELSE IF ~no_claude_url /\ "claude_url" \notin Range(args_strategies)
                 THEN <<ClaudeUrlStrategy>> \o KnownInOrder(args_strategies)
                 ELSE KnownInOrder(args_strategies)

C5_Witness ==
    /\ pc = "loop"
    /\ ~no_claude_url
    /\ "bogus" \in Range(args_strategies)
    /\ Len(strategies) = 3
    /\ strategies[1] = ClaudeUrlStrategy
    /\ strategies[2] = FileRenamerStrategy
    /\ strategies[3] = NewlinePaddingStrategy

\* C6 as stated: no strategy instance appears more than once in the
\* resolved list, whatever names the user gave.
C6_NoDuplicates == pc = "loop" => NoRepeat(strategies)

\* C6, amended: a strategy is in the resolved list once per time the user
\* named it, and claude_url once more exactly when the user gave names,
\* none of them claude_url, and did not disable it; so the list repeats no
\* instance when the user's names repeat none.
C6_OncePerNaming ==
    (pc = "loop" /\ args_strategies # <<>>) =>
        /\ \A name \in list_strategies :
              Count(strategies, _strategies[name]) =
                  Count(args_strategies, name)
                  + (IF /\ name = "claude_url"
                        /\ ~no_claude_url
                        /\ "claude_url" \notin Range(args_strategies)
                     THEN 1 ELSE 0)
        /\ NoRepeat(args_strategies) => NoRepeat(strategies)

C6_Witness ==
    /\ pc = "loop"
    /\ Range(args_strategies) = {"claude_url", "newline_padding"}
    /\ NoRepeat(args_strategies)
    /\ Count(strategies, ClaudeUrlStrategy) = 1

(***************************************************************************)
(* Properties of the processing loop (Spec).  log holds the calls of the   *)
(* last needs_processing or process_file.                                  *)
(***************************************************************************)
\* The last call was a process_file that read its file.
ProcessedAFile == ~dry_run /\ log # <<>> /\ log[1].op = "read" /\ ~log[1].failed

\* The last call ended in an I/O error (a read or a write that failed).
LastCallFailed == log # <<>> /\ log[Len(log)].failed

Calls(lg, ops) == SelectSeq(lg, LAMBDA e : e.op \in ops)

StrategiesCalled(lg, ops) ==
    [i \in 1..Len(Calls(lg, ops)) |-> Calls(lg, ops)[i].strategy]

\* What the marker extraction and the content strategies made of the file.
FinalContent(lg) ==
    Calls(lg, {"extract", "process"})[Len(Calls(lg, {"extract", "process"}))].content

\* C1 as stated: a dry run leaves the file system as it is.
C1_DryRunLeavesDiskUnchanged == [][dry_run => fs' = fs]_vars

\* A plain title line: the key, a space, one of the letters, a newline.
PlainTitleLines(c) ==
    {i \in 1..Len(splitlines(c, TRUE)) :
        /\ Len(splitlines(c, TRUE)[i]) = 4
        /\ splitlines(c, TRUE)[i][1] = TITLE_KEY
        /\ splitlines(c, TRUE)[i][2] = " "
        /\ splitlines(c, TRUE)[i][3] \in {"a", "b"}}

HasTitleLine(c) ==
    \E i \in 1..Len(splitlines(c, TRUE)) :
        \E k \in 1..Len(splitlines(c, TRUE)[i]) :
            splitlines(c, TRUE)[i][k] = TITLE_KEY

\* <title>.md next to path, for the first plain title line of c.
TitledPath(path, c) ==
    LET lines == splitlines(c, TRUE)
        first == CHOOSE i \in PlainTitleLines(c) :
                    \A j \in PlainTitleLines(c) : i <= j
    IN  [dir |-> path.dir, name |-> <<lines[first][3], ".md">>]

\* C2 as stated: process_file with strategies [file_renamer], on a file
\* without markers whose title lines are plain and whose <title>.md does
\* not exist yet, leaves the file at <title>.md in the same directory
\* (unless the OS refuses the rename) with no CLAUDE_THREAD_TITLE line in it.
C2_RenamedAndTitleStripped ==
    [][(/\ pc = "loop"
        /\ ~dry_run
        /\ strategies = <<FileRenamerStrategy>>
        /\ idx <= Len(files_to_process)
        /\ can_read(fs, files_to_process[idx])
        /\ ~_has_markers(fs[files_to_process[idx]])
        /\ PlainTitleLines(fs[files_to_process[idx]]) # {}
        /\ ~exists(fs, TitledPath(files_to_process[idx],
                                  fs[files_to_process[idx]]))
        /\ \A i \in 1..Len(log') :
              log'[i].op = "rename_file" => log'[i].ret # NoPath)
       => LET new_path == TitledPath(files_to_process[idx],
                                     fs[files_to_process[idx]])
          IN  /\ exists(fs', new_path)
              /\ ~exists(fs', files_to_process[idx])
              /\ ~HasTitleLine(fs'[new_path])]_vars

\* C3: process_file writes the file exactly when what marker extraction and
\* the content strategies made of it differs from what it read; otherwise
\* there is no write and the file holds what was read.
C3_WritesOnlyWhenChanged ==
    ProcessedAFile =>
        LET writes == Calls(log, {"write"})
            path == CurrentPathAfter(log, Len(log))
        IN  /\ writes # <<>> <=> FinalContent(log) # log[1].content
            /\ Len(writes) <= 1
            /\ \A i \in 1..Len(writes) :
                  /\ writes[i].content = FinalContent(log)
                  /\ writes[i].failed \/ fs[writes[i].path] = writes[i].content
            /\ writes = <<>> => exists(fs, path) /\ fs[path] = log[1].content

\* process_file found nothing to change and wrote nothing.
C3_Witness ==
    /\ ProcessedAFile
    /\ Calls(log, {"process"}) # <<>>
    /\ Calls(log, {"write"}) = <<>>

\* C4: in process_file every renaming strategy's rename_file comes first, in
\* list order and on the path the one before left; marker extraction
\* follows, then every content strategy's process in list order; process
\* and the write are given the path the renames ended on, where the file is.
C4_RenamesFirst ==
    ProcessedAFile =>
        LET final == CurrentPathAfter(log, Len(log))
        IN  /\ \A i, j \in 1..Len(log) :
                  (i < j /\ log[j].op = "rename_file")
                      => log[i].op \in {"read", "rename_file"}
            /\ \A i, j \in 1..Len(log) :
                  (i < j /\ log[i].op = "process")
                      => log[j].op \in {"process", "write"}
            /\ Len(Calls(log, {"extract"})) = 1
            /\ \A i \in 2..Len(log) :
                  log[i].op = "rename_file"
                      => log[i].path = CurrentPathAfter(log, i - 1)
            /\ \A i \in 1..Len(log) :
                  log[i].op \in {"process", "write"} => log[i].path = final
            /\ StrategiesCalled(log, {"rename_file"})
                   = SelectSeq(strategies, is_renaming_strategy)
            /\ StrategiesCalled(log, {"process"})
                   = SelectSeq(strategies, LAMBDA x : ~is_renaming_strategy(x))
            /\ exists(fs, final)

\* A content strategy listed before the renaming one ran after the rename,
\* on the new path, and the result was written there.
C4_Witness ==
    /\ ProcessedAFile
    /\ strategies = <<ClaudeUrlStrategy, NewlinePaddingStrategy,
                      FileRenamerStrategy>>
    /\ CurrentPathAfter(log, Len(log)) # log[1].path
    /\ Calls(log, {"write"}) # <<>>
    /\ ~LastCallFailed

\* C7: in a real run, when process_file raises (a read or a write failed)
\* the command ends with sys.exit(1) at that candidate and does nothing more.
C7_ErrorAbortsRun ==
    (~dry_run /\ LastCallFailed) =>
        /\ pc = "sys_exit_1"
        /\ idx <= Len(files_to_process)
        /\ files_to_process[idx] = log[1].path
        /\ ~ENABLED Next

\* The run was aborted with a candidate still to come.
C7_Witness ==
    /\ ~dry_run
    /\ LastCallFailed
    /\ pc = "sys_exit_1"
    /\ idx < Len(files_to_process)
    /\ can_read(fs, files_to_process[idx + 1])

\* C8: in a dry run an unreadable candidate is passed over: it is not
\* counted as needing changes, nothing on disk changes, the loop moves to
\* the next candidate, and the command never ends with sys.exit(1).
C8_DryRunSurvivesErrors ==
    /\ [](dry_run => pc # "sys_exit_1")
    /\ [][(/\ dry_run
           /\ pc = "loop"
           /\ idx <= Len(files_to_process)
           /\ ~can_read(fs, files_to_process[idx]))
          => (/\ pc' = "loop"
              /\ idx' = idx + 1
              /\ processed_count' = processed_count
              /\ fs' = fs)]_vars

\* The probe of a candidate failed and the loop stands at the next one.
C8_Witness ==
    /\ dry_run
    /\ LastCallFailed
    /\ pc = "loop"
    /\ idx <= Len(files_to_process)
    /\ log[1].path = files_to_process[idx - 1]

(***************************************************************************)
(* Properties of rename_file (SpecRename).  fs0 is the file system before  *)
(* the call, fs the one after it.                                          *)
(***************************************************************************)
\* The path file_renamer computes for the file at file_path in f; NoPath
\* when it finds no title to use.
ComputedTarget(f, file_path) ==
    LET clean_title ==
            _sanitize_filename(first_actual_title(title_matches(f[file_path], 1)))
    IN  IF clean_title = <<>> THEN NoPath
        ELSE new_path_for(file_path, clean_title)

\* rename_file was called on a readable file whose target path is taken by
\* another file.
TargetInTheWay ==
    /\ pc = "renamed"
    /\ can_read(fs0, files_to_process[idx])
    /\ ComputedTarget(fs0, files_to_process[idx]) # NoPath
    /\ ComputedTarget(fs0, files_to_process[idx]) # files_to_process[idx]
    /\ exists(fs0, ComputedTarget(fs0, files_to_process[idx]))

\* C12: with --no-overwrite, when the computed target path exists already,
\* rename_file returns None and every file keeps its path and its content.
C12_RefusesWhenTargetExists ==
    (TargetInTheWay /\ no_overwrite) => returned = NoPath /\ fs = fs0

C12_Witness ==
    /\ TargetInTheWay
    /\ no_overwrite
    /\ returned = NoPath
    /\ fs = fs0
    /\ Cardinality(DOMAIN fs) = 2

\* Where the key stands in a line (its first occurrence), or 0.
KeyAt(line) ==
    IF \A k \in 1..Len(line) : line[k] # TITLE_KEY THEN 0
    ELSE CHOOSE k \in 1..Len(line) :
            line[k] = TITLE_KEY /\ \A j \in 1..(k - 1) : line[j] # TITLE_KEY

\* The rest of a line after the key, without the blanks around it.
RestOfLine(line) == strip(SubSeq(line, KeyAt(line) + 1, Len(line)))

\* The stated title: the rest of the line of the first line with
\* the key whose title is not the placeholder; <<>> when there is no such
\* line.  A line with nothing after the key either is no title line
\* (skip_empty) or is one with the empty title.
StatedTitle(c, skip_empty) ==
    LET lines == splitlines(c, FALSE)
        titled == {i \in 1..Len(lines) :
                      /\ KeyAt(lines[i]) # 0
                      /\ RestOfLine(lines[i]) # TITLE_PLACEHOLDER
                      /\ skip_empty => RestOfLine(lines[i]) # <<>>}
    IN  IF titled = {} THEN <<>>
        ELSE RestOfLine(lines[CHOOSE i \in titled : \A j \in titled : i <= j])

\* C14 as stated: rename_file renames to <title>.md for the title that is
\* the rest of the line of the first CLAUDE_THREAD_TITLE line whose title is
\* not the placeholder (under either reading of a line with an empty
\* title), and does not rename when the content has no such line.
C14_TitleIsRestOfFirstLine ==
    (pc = "renamed" /\ can_read(fs0, files_to_process[idx])) =>
        \E skip_empty \in BOOLEAN :
            LET clean_title ==
                    _sanitize_filename(
                        StatedTitle(fs0[files_to_process[idx]], skip_empty))
            IN  IF clean_title = <<>>
                THEN returned \in {NoPath, files_to_process[idx]} /\ fs = fs0
                ELSE returned \in {NoPath,
                                   new_path_for(files_to_process[idx],
                                                clean_title)}

\* C17 as stated: when rename_file returns None the file system is as it
\* was before the call.
C17_NoRenameNoChange ==
    (pc = "renamed" /\ returned = NoPath) => fs = fs0

(***************************************************************************)
(* Properties of a dry run against a real run, and of a second run         *)
(* (SpecRerun).                                                            *)
(***************************************************************************)
\* C15 as stated: needs_processing counts the file ("Would process")
\* exactly when process_file on the same file, from the same file system,
\* returns True (it renamed the file or wrote it).
C15_DryRunAgreesWithRealRun ==
    [][(dry_run /\ pc = "loop" /\ idx <= Len(files_to_process))
       => ((processed_count' = processed_count + 1)
           <=> process_file(fs, files_to_process[idx], strategies,
                            allow_overwrite, NoFailure).result)]_vars

\* C16 as stated: under the default strategies, process_file on the file
\* a first process_file left changes nothing and returns False.
C16_SecondRunChangesNothing ==
    [][(/\ run = 2
        /\ pc = "loop"
        /\ idx <= Len(files_to_process)
        /\ strategies = <<FileRenamerStrategy, ClaudeUrlStrategy>>)
       => (/\ fs' = fs
           /\ processed_count' = processed_count
           /\ \A i \in 1..Len(log') : log'[i].op # "write")]_vars

(***************************************************************************)
(* Properties of a real run with --no-overwrite (Spec).                    *)
(***************************************************************************)
FilesIn(f, d) == {q \in DOMAIN f : q.dir = d}

\* C18: in a real run with --no-overwrite every directory holds as many
\* files as when the run started, and each process_file leaves every other
\* file under its path with its content, and the file it was given under
\* one path (its own, or a new one that was free) holding what it held or
\* what marker extraction and the content strategies made of that.
C18_NoOverwriteDestroysNothing ==
    /\ [](( ~dry_run /\ no_overwrite) =>
            \A d \in {"d1", "d2"} :
                Cardinality(FilesIn(fs, d)) = Cardinality(FilesIn(fs0, d)))
    /\ [][(/\ ~dry_run
           /\ no_overwrite
           /\ pc = "loop"
           /\ idx <= Len(files_to_process))
          => LET file_path == files_to_process[idx]
                 final == CurrentPathAfter(log', Len(log'))
             IN  IF ~can_read(fs, file_path) THEN fs' = fs
                 ELSE /\ \A q \in DOMAIN fs \ {file_path} :
                            exists(fs', q) /\ fs'[q] = fs[q]
                      /\ DOMAIN fs' = (DOMAIN fs \ {file_path}) \cup {final}
                      /\ final # file_path => ~exists(fs, final)
                      /\ fs'[final] \in {fs[file_path], FinalContent(log')}]_vars

\* With --no-overwrite a rename was refused because its target was taken,
\* and the file was rewritten under its own path.
C18_Witness ==
    /\ ProcessedAFile
    /\ no_overwrite
    /\ \E i \in 1..Len(log) :
          /\ log[i].op = "rename_file"
          /\ log[i].ret = NoPath
          /\ exists(fs0, log[i].path)
          /\ ComputedTarget(fs0, log[i].path) \notin {NoPath, log[i].path}
          /\ exists(fs, ComputedTarget(fs0, log[i].path))
    /\ Calls(log, {"write"}) # <<>>
    /\ ~LastCallFailed
    /\ Cardinality(DOMAIN fs) = 2
    /\ fs # fs0

(***************************************************************************)
(* Properties of discovery (SpecFind).                                     *)
(***************************************************************************)
\* The file lies in a directory whose absolute path contains one of the
\* exclude substrings (the path of a directory contains the paths of the
\* directories above it).
InExcludedDirectory(path) ==
    _should_exclude_directory(path.dir, effective_excludes(excludes))

\* C13 as stated: no file find_files returns lies in a directory whose
\* absolute path contains an exclude substring, whatever the roots are.
C13_NothingFromExcluded ==
    pc # "find" =>
        \A i \in 1..Len(files_to_process) :
            ~InExcludedDirectory(files_to_process[i])

\* C19 as stated: find_files returns no path twice, whatever the roots are,
\* so every candidate the processing loop comes to exists under the path
\* it was found under.
C19_EachFileOnce ==
    /\ pc # "find" => NoRepeat(files_to_process)
    /\ (pc = "loop" /\ idx <= Len(files_to_process))
           => exists(fs, files_to_process[idx])

=============================================================================
